---- MODULE Spec2Model ----
(***************************************************************************)
(* Model of src/App.py: the store (users, bee_templates, parts, bees,      *)
(* market_listings, spins_log) and the request handlers that work on it.   *)
(* A handler is a coroutine that yields at every awaited store statement   *)
(* and no statement runs inside a transaction, so every statement is one   *)
(* step and the steps of concurrent requests interleave.                   *)
(* Strings of the source are written in English: Обычная = common,         *)
(* Сверхредкая = superrare, Эпическая = epic, Легендарная = legendary,     *)
(* Мифическая = mythic, Дикая = wild; крылья = wing, тельце = body,        *)
(* жало = sting, голова = head; Танк = tank, Хиллер = healer,              *)
(* Саппорт = support; of SAMPLE_NAMES, Пчелёнок = Beeling, Страж = Guard.   *)
(***************************************************************************)
EXTENDS Integers, Sequences, FiniteSets, TLC

VARIABLES
    users,            \* table users: id -> [coins, last_spin]
    bee_templates,    \* table bee_templates: id -> [name, rarity, role, base_value]
    parts,            \* table parts: <<user, template, part_type, rarity>> -> amount
    bees,             \* table bees: sequence, id = index
    market_listings,  \* table market_listings: id -> [seller_id, bee_id, price, created_at]
    listing_seq,      \* last value of the SERIAL market_listings.id
    spins_log,        \* table spins_log: sequence of rows (drawn_at is history: the draw's now)
    clock,            \* wall clock, in hours
    req,              \* the request each connection is serving, with its locals
    nreq,             \* number of requests started
    scenario,         \* the workload this behaviour runs
    asm_removed,      \* history: units try_assemble removed, per parts key
    asm_minted,       \* history: bees try_assemble inserted, per <<user, template, rarity>>
    sale_gap,         \* history: per user, coins credited by /sell_part minus value of units removed
    bought,           \* history: listing id -> number of purchases that succeeded on it
    drawn,            \* history: <<user, template, part_type, rarity, amount>> -> stock increments by draws
    call              \* a function of the configuration applied on its own: arguments and result

vars == <<users, bee_templates, parts, bees, market_listings, listing_seq,
          spins_log, clock, req, nreq, scenario, asm_removed, asm_minted, sale_gap,
          bought, drawn, call>>

store == <<users, bee_templates, parts, bees, market_listings, listing_seq, spins_log>>
history == <<asm_removed, asm_minted, sale_gap, bought, drawn>>

----------------------------------------------------------------------------
\* Bounds of the model

\* requests a behaviour starts
MaxRequests == 2
\* the clock runs from 0 to MaxClock in steps of TickHours
MaxClock == 24
TickHours == 24
\* greatest amount a draw gives (draw_amount goes to 10)
MaxDraw == 1

\* user ids
Users == {1, 2}
\* pool connections, each serving one request at a time
Procs == {1, 2}
\* the catalog's templates: the first common one and the first superrare one
TemplateIds == {1, 36}
\* amounts, prices, bee ids and listing ids users type
SellAmounts == {-1, 0, 1, 2}
Prices == {0, 150}
BeeIds == {1, 2}
ListingIds == {1, 2}
\* part types a draw gives (secrets.choice ranges over all of PART_TYPES)
DrawParts == {"wing", "head"}
\* names ensure_bee_templates picks from (SAMPLE_NAMES has 39)
SampleNames == {"Beeling", "Guard"}

----------------------------------------------------------------------------
\* Game configuration

RARITIES == <<"common", "superrare", "epic", "legendary", "mythic", "wild">>

RARITY_COUNTS == [common |-> 35, superrare |-> 25, epic |-> 15,
                  legendary |-> 15, mythic |-> 9, wild |-> 1]

PART_TYPES == <<"wing", "body", "sting", "head">>

PartTypeSet == {PART_TYPES[n] : n \in 1..Len(PART_TYPES)}

ROLES == <<"tank", "healer", "support">>

RARITY_BASE_VALUE == [common |-> 50, superrare |-> 200, epic |-> 800,
                      legendary |-> 3000, mythic |-> 12000, wild |-> 50000]

DefaultPrice == 10

CooldownHours == 24

\* mutant: the first band ends one roll early
draw_amount_early(r, j) ==
    IF r < 45 THEN <<1, 2, 3>>[j]
    ELSE IF r <= 45 + 35 THEN <<4, 5, 6>>[j]
    ELSE IF r <= 45 + 35 + 15 THEN <<7, 8, 9>>[j]
    ELSE 10

\* draw_amount with its two random draws made explicit: r is the percentile
\* roll, j the index secrets.choice picks in the three-element list.
draw_amount(r, j) ==
    IF r <= 45 THEN <<1, 2, 3>>[j]
    ELSE IF r <= 45 + 35 THEN <<4, 5, 6>>[j]
    ELSE IF r <= 45 + 35 + 15 THEN <<7, 8, 9>>[j]
    ELSE 10

\* the amounts draw_amount can return, cut to the model's bound
DrawAmounts == {a \in {draw_amount(r, j) : r \in 1..100, j \in 1..3} : a <= MaxDraw}

\* rarity of the template with id i, as ensure_bee_templates lays the ids out:
\* RARITY_COUNTS is walked in order and ids are handed out serially.
RECURSIVE RarityAt(_, _)
RarityAt(i, n) ==
    IF n >= Len(RARITIES) \/ i <= RARITY_COUNTS[RARITIES[n]]
    THEN RARITIES[n]
    ELSE RarityAt(i - RARITY_COUNTS[RARITIES[n]], n + 1)

\* i + 1 of the loop of ensure_bee_templates for the template with id i: its
\* position among the templates of its rarity
RECURSIVE IndexAt(_, _)
IndexAt(i, n) ==
    IF n >= Len(RARITIES) \/ i <= RARITY_COUNTS[RARITIES[n]]
    THEN i
    ELSE IndexAt(i - RARITY_COUNTS[RARITIES[n]], n + 1)

\* the row ensure_bee_templates inserts as template i, with the sample name and
\* the role it has drawn; the name is f"{sample}-{rarity[:3]}-{i+1}" (the six
\* three-letter prefixes are distinct, the rarity stands for its prefix)
TemplateRow(i, sample, role) ==
    [name |-> <<sample, RarityAt(i, 1), IndexAt(i, 1)>>,
     rarity |-> RarityAt(i, 1),
     role |-> role,
     base_value |-> RARITY_BASE_VALUE[RarityAt(i, 1)]]

\* the rows of the catalog the model keeps, as one seeding has written them
SeedTemplates ==
    [i \in TemplateIds |-> TemplateRow(i, "Beeling", ROLES[(i % Len(ROLES)) + 1])]

RECURSIVE SumCounts(_)
SumCounts(n) == IF n = 0 THEN 0 ELSE RARITY_COUNTS[RARITIES[n]] + SumCounts(n - 1)

\* rows of the seeded catalog: sum of RARITY_COUNTS
TemplateTotal == SumCounts(Len(RARITIES))

\* the threshold of the test of ensure_bee_templates
SeededAbove == 100

----------------------------------------------------------------------------
\* Store helpers

NoTime == <<>>

Key(u, t, pt, r) == <<u, t, pt, r>>

Amount(k) == IF k \in DOMAIN parts THEN parts[k] ELSE 0

Put(f, k, v) == [x \in (DOMAIN f) \cup {k} |-> IF x = k THEN v ELSE f[x]]

Count(f, k) == IF k \in DOMAIN f THEN f[k] ELSE 0

CoinsIn(us, u) == IF u \in DOMAIN us THEN us[u].coins ELSE 0

Coins(u) == CoinsIn(users, u)

ZeroMap == [pt \in PartTypeSet |-> 0]

Blank ==
    [pc |-> "done", cmd |-> "", user |-> 0, tid |-> 0, rar |-> "", pt |-> "",
     amt |-> 0, now |-> 0, res |-> "", rars |-> <<>>, i |-> 0, pm |-> ZeroMap,
     role |-> "", bee |-> 0, price |-> 0, lid |-> 0, total |-> 0, dec |-> ZeroMap,
     rows |-> <<>>]

Done(r) == [Blank EXCEPT !.res = r]

\* no function is being applied on its own
NoCall ==
    [fn |-> "", roll |-> 0, idx |-> 0, held |-> {}, amount |-> 0, order |-> <<>>,
     done |-> FALSE]

----------------------------------------------------------------------------
\* Initial stores.  "fresh" is the store right after DB.init.  "craft" and
\* "market" start from a store the program reaches from it: user 1 drew two
\* units of each part of template 1 on four days (hours -84, -60, -36, -12),
\* the fourth draw assembling bee 1; user 2 drew three wings of template 1 at
\* hour -24 and sold two of them for 50 coins each.  In "market" user 1 has
\* also listed bee 1 for 100 coins at hour -6.  "draws" starts after three
\* draws of user 1 for template 1 (two wings, two bodies, two stings at hours
\* -72, -48, -24): a fourth draw is due and no bee has been assembled yet.
\* "boot" has the store of "craft"; the bot is started again on it.

Scenarios == {"fresh", "craft", "market", "draws", "boot"}

SeedRow(u, pt, a, at) ==
    [user_id |-> u, template_id |-> 1, part_type |-> pt, rarity |-> "common",
     amount |-> a, created_at |-> at, drawn_at |-> at]

SeedUsers ==
    (1 :> [coins |-> 0, last_spin |-> <<-12>>]) @@
    (2 :> [coins |-> 100, last_spin |-> <<-24>>])

SeedParts ==
    [k \in {Key(1, 1, pt, "common") : pt \in PartTypeSet} \cup {Key(2, 1, "wing", "common")}
        |-> 1]

SeedBees ==
    <<[user_id |-> 1, template_id |-> 1, rarity |-> "common",
       role |-> SeedTemplates[1].role, level |-> 1, exp |-> 0]>>

SeedListings ==
    (1 :> [seller_id |-> 1, bee_id |-> 1, price |-> 100, created_at |-> -6])

SeedLog ==
    <<SeedRow(1, "wing", 2, -84), SeedRow(1, "body", 2, -60), SeedRow(1, "sting", 2, -36),
      SeedRow(2, "wing", 3, -24), SeedRow(1, "head", 2, -12)>>

DrawsUsers == (1 :> [coins |-> 0, last_spin |-> <<-24>>])

DrawsParts == [k \in {Key(1, 1, pt, "common") : pt \in {"wing", "body", "sting"}} |-> 2]

DrawsLog == <<SeedRow(1, "wing", 2, -72), SeedRow(1, "body", 2, -48), SeedRow(1, "sting", 2, -24)>>

\* what a row of spins_log says was given
GivenBy(row) == <<row.user_id, row.template_id, row.part_type, row.rarity, row.amount>>

\* the stock increments the draws of a seeded log made
DrawnIn(log) ==
    [v \in {GivenBy(log[n]) : n \in DOMAIN log}
        |-> Cardinality({n \in DOMAIN log : GivenBy(log[n]) = v})]

Init ==
    /\ scenario \in Scenarios
    /\ bee_templates = SeedTemplates
    /\ users = CASE scenario = "fresh" -> <<>> [] scenario = "draws" -> DrawsUsers
                  [] OTHER -> SeedUsers
    /\ parts = CASE scenario = "fresh" -> <<>> [] scenario = "draws" -> DrawsParts
                  [] OTHER -> SeedParts
    /\ bees = IF scenario \in {"fresh", "draws"} THEN <<>> ELSE SeedBees
    /\ spins_log = CASE scenario = "fresh" -> <<>> [] scenario = "draws" -> DrawsLog
                      [] OTHER -> SeedLog
    /\ market_listings = IF scenario = "market" THEN SeedListings ELSE <<>>
    /\ listing_seq = IF scenario = "market" THEN 1 ELSE 0
    /\ clock = 0
    /\ req = [p \in Procs |-> Blank]
    /\ nreq = 0
    /\ asm_removed = IF scenario \in {"fresh", "draws"} THEN <<>>
                     ELSE [k \in {Key(1, 1, pt, "common") : pt \in PartTypeSet} |-> 1]
    /\ asm_minted = IF scenario \in {"fresh", "draws"} THEN <<>>
                    ELSE (<<1, 1, "common">> :> 1)
    /\ sale_gap = [u \in Users |-> 0]
    /\ bought = <<>>
    /\ drawn = DrawnIn(spins_log)
    /\ call = NoCall

\* The requests a scenario issues: the commands and arguments users send.
Request(c, u, t, pt, a, b, pr, l) ==
    [cmd |-> c, user |-> u, tid |-> t, pt |-> pt, amt |-> a, bee |-> b,
     price |-> pr, lid |-> l]

Requests(s) ==
    IF s = "fresh" THEN
        {Request("daily_spin", 1, 0, "", 0, 0, 0, 0)}
        \cup {Request("sell_part", 1, 1, "wing", a, 0, 0, 0) : a \in {-1, 1}}
    ELSE IF s = "craft" THEN
        {Request("assemble", 1, t, "", 0, 0, 0, 0) : t \in TemplateIds}
        \cup {Request("sell_part", 1, 1, "wing", a, 0, 0, 0) : a \in SellAmounts}
        \cup {Request("daily_spin", 1, 0, "", 0, 0, 0, 0)}
    ELSE IF s = "boot" THEN
        \* the bot is started: DB.init, with no handler running
        IF \A p \in Procs : req[p].pc = "done"
        THEN {Request("init", 0, 0, "", 0, 0, 0, 0)} ELSE {}
    ELSE IF s = "draws" THEN
        \* the fourth draw first, then /assemble
        IF nreq = 0 THEN {Request("daily_spin", 1, 0, "", 0, 0, 0, 0)}
        ELSE {Request("assemble", 1, 1, "", 0, 0, 0, 0)}
    ELSE
        {Request("sell_bee", u, 0, "", 0, b, pr, 0) : u \in Users, b \in BeeIds, pr \in Prices}
        \cup {Request("buy", u, 0, "", 0, 0, 0, l) : u \in Users, l \in ListingIds}
        \cup {Request("market", 2, 0, "", 0, 0, 0, 0)}

FirstPc(c) ==
    CASE c = "daily_spin" -> "ds_ensure"
      [] c = "assemble" -> "as_scan"
      [] c = "sell_part" -> "sp_read"
      [] c = "sell_bee" -> "sb_check"
      [] c = "buy" -> "buy_read"
      [] c = "market" -> "mk_read"
      [] c = "init" -> "ebt_count"

----------------------------------------------------------------------------
\* Dispatch: a connection takes a request; the handler has parsed its
\* arguments and is about to run its first statement.  The pool's
\* connections are interchangeable, so the first idle one takes the request.

Start(p) ==
    /\ req[p].pc = "done"
    /\ \A q \in Procs : q < p => req[q].pc # "done"
    /\ nreq < MaxRequests
    /\ \E r \in Requests(scenario) :
        req' = [req EXCEPT ![p] =
                  [Blank EXCEPT !.pc = FirstPc(r.cmd), !.cmd = r.cmd, !.user = r.user,
                                !.tid = r.tid, !.pt = r.pt, !.amt = r.amt,
                                !.bee = r.bee, !.price = r.price, !.lid = r.lid]]
    /\ nreq' = nreq + 1
    /\ UNCHANGED <<store, clock, scenario, call, history>>

Tick ==
    /\ clock + TickHours <= MaxClock
    /\ clock' = clock + TickHours
    /\ UNCHANGED <<store, req, nreq, scenario, call, history>>

----------------------------------------------------------------------------
\* DB.init: create_tables (CREATE TABLE IF NOT EXISTS leaves an existing store
\* as it is), then ensure_bee_templates, one step per awaited statement.

\* SELECT count(*) FROM bee_templates: the model keeps the rows TemplateIds of
\* a catalog of TemplateTotal rows
CountTemplates ==
    IF DOMAIN bee_templates = TemplateIds THEN TemplateTotal
    ELSE Cardinality(DOMAIN bee_templates)

\* if row and row > 100: return
AlreadyCreated(row) == row # 0 /\ row > SeededAbove

EbtCount(p) ==
    LET r == req[p]
    IN  /\ r.pc = "ebt_count"
        /\ req' = [req EXCEPT ![p] =
                     IF AlreadyCreated(CountTemplates) THEN Done("Ready")
                     ELSE [r EXCEPT !.pc = "ebt_truncate"]]
        /\ UNCHANGED <<store, clock, nreq, scenario, call, history>>

\* TRUNCATE bee_templates RESTART IDENTITY.  The statement empties the table;
\* where parts and bees carry their REFERENCES bee_templates(id) the server
\* refuses it, the exception leaves DB.init and the bot does not start.
EbtTruncate(p) ==
    LET r == req[p]
    IN  /\ r.pc = "ebt_truncate"
        /\ \/ /\ bee_templates' = <<>>
              /\ req' = [req EXCEPT ![p] = [r EXCEPT !.pc = "ebt_insert"]]
           \/ /\ bee_templates' = bee_templates
              /\ req' = [req EXCEPT ![p] = Done("InitFailed")]
        /\ UNCHANGED <<users, parts, bees, market_listings, listing_seq, spins_log,
                       clock, nreq, scenario, call, history>>

\* the INSERTs of the loop, in the order of the ids: the next row the model
\* keeps, with the name and role drawn for it
EbtInsert(p) ==
    LET r == req[p]
        left == TemplateIds \ DOMAIN bee_templates
    IN  /\ r.pc = "ebt_insert"
        /\ IF left = {}
           THEN /\ req' = [req EXCEPT ![p] = Done("Ready")]
                /\ bee_templates' = bee_templates
           ELSE LET i == CHOOSE x \in left : \A y \in left : x <= y
                IN  \E sample \in SampleNames, n \in 1..Len(ROLES) :
                      /\ bee_templates' = Put(bee_templates, i, TemplateRow(i, sample, ROLES[n]))
                      /\ req' = req
        /\ UNCHANGED <<users, parts, bees, market_listings, listing_seq, spins_log,
                       clock, nreq, scenario, call, history>>

----------------------------------------------------------------------------
\* try_assemble, one step per awaited statement.

\* what the caller does with try_assemble's None
AfterNone(r) ==
    IF r.cmd = "daily_spin" THEN Done("DrawOk")
    ELSE IF Len(r.rars) > 1
         THEN [r EXCEPT !.pc = "ta_read", !.rar = r.rars[2], !.rars = Tail(r.rars),
                        !.pm = ZeroMap, !.dec = ZeroMap, !.i = 0]
         ELSE Done("NotEnoughParts")

\* what the caller does with the new bee's id
AfterBee(r) ==
    IF r.cmd = "daily_spin" THEN Done("DrawOkBee") ELSE Done("Assembled")

\* SELECT part_type, amount ...; parts_map; the all(...) test
TaRead(p) ==
    LET r == req[p]
        seen == [pt \in PartTypeSet |-> Amount(Key(r.user, r.tid, pt, r.rar))]
    IN  /\ r.pc = "ta_read"
        /\ req' = [req EXCEPT ![p] =
                     IF \A pt \in PartTypeSet : seen[pt] >= 1
                     THEN [r EXCEPT !.pc = "ta_dec", !.pm = seen, !.i = 1, !.dec = ZeroMap]
                     ELSE AfterNone(r)]
        /\ UNCHANGED <<store, clock, nreq, scenario, call, history>>

\* mutant: the UPDATE takes two units
DecAmountTwo(a) == a - 2

\* the row the i-th UPDATE parts SET amount = amount - 1 of the loop writes
DecAmount(a) == a - 1

TaDec(p) ==
    LET r == req[p]
        pt == PART_TYPES[r.i]
        k == Key(r.user, r.tid, pt, r.rar)
        hit == k \in DOMAIN parts
    IN  /\ r.pc = "ta_dec"
        /\ parts' = IF hit THEN [parts EXCEPT ![k] = DecAmount(@)] ELSE parts
        /\ asm_removed' = IF hit THEN Put(asm_removed, k, Count(asm_removed, k) + 1)
                          ELSE asm_removed
        /\ req' = [req EXCEPT ![p] =
                     [r EXCEPT !.i = r.i + 1,
                               !.dec = IF hit THEN [r.dec EXCEPT ![pt] = @ + parts[k] - DecAmount(parts[k])]
                                       ELSE r.dec,
                               !.pc = IF r.i = Len(PART_TYPES) THEN "ta_tmpl" ELSE "ta_dec"]]
        /\ UNCHANGED <<users, bee_templates, bees, market_listings, listing_seq,
                       spins_log, clock, nreq, scenario, call, drawn, asm_minted, sale_gap, bought>>

\* SELECT role FROM bee_templates; a missing template gives a random role
TaTmpl(p) ==
    LET r == req[p]
    IN  /\ r.pc = "ta_tmpl"
        /\ \E ro \in IF r.tid \in DOMAIN bee_templates
                     THEN {bee_templates[r.tid].role}
                     ELSE {ROLES[n] : n \in 1..Len(ROLES)} :
              req' = [req EXCEPT ![p] = [r EXCEPT !.pc = "ta_insert", !.role = ro]]
        /\ UNCHANGED <<store, clock, nreq, scenario, call, history>>

\* the row INSERT INTO bees writes (level and exp take the column defaults)
NewBee(r) ==
    [user_id |-> r.user, template_id |-> r.tid, rarity |-> r.rar, role |-> r.role,
     level |-> 1, exp |-> 0]

TaInsert(p) ==
    LET r == req[p]
        m == <<r.user, r.tid, r.rar>>
    IN  /\ r.pc = "ta_insert"
        /\ bees' = Append(bees, NewBee(r))
        /\ asm_minted' = Put(asm_minted, m, Count(asm_minted, m) + 1)
        /\ req' = [req EXCEPT ![p] = AfterBee(r)]
        /\ UNCHANGED <<users, bee_templates, parts, market_listings, listing_seq,
                       spins_log, clock, nreq, scenario, call, drawn, asm_removed, sale_gap, bought>>

\* an awaited statement of try_assemble's write phase raises (the connection
\* drops, the task is cancelled): the handler ends there, and what it has
\* written stays, since nothing runs in a transaction.
Fail(p) ==
    /\ req[p].pc \in {"ta_dec", "ta_tmpl", "ta_insert"}
    /\ req' = [req EXCEPT ![p] = Done("Error")]
    /\ UNCHANGED <<store, clock, nreq, scenario, call, history>>

----------------------------------------------------------------------------
\* /daily_spin, one step per awaited statement.

\* mutant: a new user starts with 10 coins
ensure_user_gift(u) ==
    IF u \in DOMAIN users THEN users
    ELSE Put(users, u, [coins |-> 10, last_spin |-> NoTime])

\* ensure_user: INSERT ... ON CONFLICT (id) DO UPDATE SET username
ensure_user(u) ==
    IF u \in DOMAIN users THEN users
    ELSE Put(users, u, [coins |-> 0, last_spin |-> NoTime])

DsEnsure(p) ==
    LET r == req[p]
    IN  /\ r.pc = "ds_ensure"
        /\ users' = ensure_user(r.user)
        /\ req' = [req EXCEPT ![p] = [r EXCEPT !.pc = "ds_read"]]
        /\ UNCHANGED <<bee_templates, parts, bees, market_listings, listing_seq,
                       spins_log, clock, nreq, scenario, call, history>>

\* mutant: the comparison is turned round
CooldownReversed(last, now) == last # NoTime /\ now - last[1] > CooldownHours

\* the cooldown test on the row read: row and row['last_spin'] and now - last < 24h
CooldownActive(last, now) == last # NoTime /\ now - last[1] < CooldownHours

\* SELECT last_spin; now = utcnow(); the cooldown test
DsRead(p) ==
    LET r == req[p]
        last == IF r.user \in DOMAIN users THEN users[r.user].last_spin ELSE NoTime
    IN  /\ r.pc = "ds_read"
        /\ req' = [req EXCEPT ![p] =
                     IF CooldownActive(last, clock) THEN Done("CooldownActive")
                     ELSE [r EXCEPT !.pc = "ds_pick", !.now = clock]]
        /\ UNCHANGED <<store, clock, nreq, scenario, call, history>>

\* mutant: the rarity is not the template's, every draw gives the first tier
DrawnRarityFirst(t) == RARITIES[1]

\* rarity = tpl['rarity']
DrawnRarity(t) == bee_templates[t].rarity

\* pick_random_template, then the part type and the amount are drawn
DsPick(p) ==
    LET r == req[p]
    IN  /\ r.pc = "ds_pick"
        /\ IF DOMAIN bee_templates = {}
           THEN req' = [req EXCEPT ![p] = Done("NoTemplate")]
           ELSE \E t \in DOMAIN bee_templates, pt \in DrawParts, a \in DrawAmounts :
                  req' = [req EXCEPT ![p] =
                            [r EXCEPT !.pc = "ds_upsert", !.tid = t,
                                      !.rar = DrawnRarity(t),
                                      !.pt = pt, !.amt = a]]
        /\ UNCHANGED <<store, clock, nreq, scenario, call, history>>

\* the arguments of give_parts_to_user
Given(r) == <<r.user, r.tid, r.pt, r.rar, r.amt>>

\* give_parts_to_user, first statement: the upsert into parts
DsUpsert(p) ==
    LET r == req[p]
        k == Key(r.user, r.tid, r.pt, r.rar)
    IN  /\ r.pc = "ds_upsert"
        /\ parts' = Put(parts, k, Amount(k) + r.amt)
        /\ drawn' = Put(drawn, Given(r), Count(drawn, Given(r)) + 1)
        /\ req' = [req EXCEPT ![p] = [r EXCEPT !.pc = "ds_log"]]
        /\ UNCHANGED <<users, bee_templates, bees, market_listings, listing_seq,
                       spins_log, clock, nreq, scenario, call, asm_removed, asm_minted,
                       sale_gap, bought>>

\* mutant: give_parts_to_user without its second statement
DsLogNone(p) ==
    LET r == req[p]
    IN  /\ r.pc = "ds_log"
        /\ req' = [req EXCEPT ![p] = [r EXCEPT !.pc = "ds_stamp"]]
        /\ UNCHANGED <<store, clock, nreq, scenario, call, history>>

\* give_parts_to_user, second statement: the row of spins_log
DsLog(p) ==
    LET r == req[p]
    IN  /\ r.pc = "ds_log"
        /\ spins_log' = Append(spins_log,
               [user_id |-> r.user, template_id |-> r.tid, part_type |-> r.pt,
                rarity |-> r.rar, amount |-> r.amt, created_at |-> clock,
                drawn_at |-> r.now])
        /\ req' = [req EXCEPT ![p] = [r EXCEPT !.pc = "ds_stamp"]]
        /\ UNCHANGED <<users, bee_templates, parts, bees, market_listings, listing_seq,
                       clock, nreq, scenario, call, history>>

\* mutant: the draw ends after the stamp, without calling try_assemble
DsStampOnly(p) ==
    LET r == req[p]
    IN  /\ r.pc = "ds_stamp"
        /\ users' = IF r.user \in DOMAIN users
                    THEN [users EXCEPT ![r.user].last_spin = <<r.now>>]
                    ELSE users
        /\ req' = [req EXCEPT ![p] = Done("DrawOk")]
        /\ UNCHANGED <<bee_templates, parts, bees, market_listings, listing_seq,
                       spins_log, clock, nreq, scenario, call, history>>

\* UPDATE users SET last_spin = now; then try_assemble is called
DsStamp(p) ==
    LET r == req[p]
    IN  /\ r.pc = "ds_stamp"
        /\ users' = IF r.user \in DOMAIN users
                    THEN [users EXCEPT ![r.user].last_spin = <<r.now>>]
                    ELSE users
        /\ req' = [req EXCEPT ![p] = [r EXCEPT !.pc = "ta_read"]]
        /\ UNCHANGED <<bee_templates, parts, bees, market_listings, listing_seq,
                       spins_log, clock, nreq, scenario, call, history>>

----------------------------------------------------------------------------
\* /assemble <template_id>

\* SELECT DISTINCT rarity ... AND amount > 0
HeldRarities(u, t) ==
    {k[4] : k \in {x \in DOMAIN parts : x[1] = u /\ x[2] = t /\ parts[x] > 0}}

\* rarities.sort(key = index in RARITIES)
SortRarities(S) == SelectSeq(RARITIES, LAMBDA x : x \in S)

AsScan(p) ==
    LET r == req[p]
        rs == SortRarities(HeldRarities(r.user, r.tid))
    IN  /\ r.pc = "as_scan"
        /\ req' = [req EXCEPT ![p] =
                     IF rs = <<>> THEN Done("NoParts")
                     ELSE [r EXCEPT !.pc = "ta_read", !.rars = rs, !.rar = rs[1]]]
        /\ UNCHANGED <<store, clock, nreq, scenario, call, history>>

----------------------------------------------------------------------------
\* /sell_part <template_id> <part_type> <amount>

\* the rows a (user, template, part_type) has, one per rarity
RowsOf(u, t, pt) == {k \in DOMAIN parts : k[1] = u /\ k[2] = t /\ k[3] = pt}

\* ORDER BY amount DESC LIMIT 1: a row of greatest amount
TopRows(u, t, pt) ==
    {k \in RowsOf(u, t, pt) : \A x \in RowsOf(u, t, pt) : parts[x] <= parts[k]}

\* RARITY_BASE_VALUE.get(rarity, 10)
price_per(rar) ==
    IF rar \in DOMAIN RARITY_BASE_VALUE THEN RARITY_BASE_VALUE[rar] ELSE DefaultPrice

\* mutant: off by one, a sale of one unit more than held goes through
SaleRefusedLate(have, amount) == have + 1 < amount

\* if not row or row['amount'] < amount
SaleRefused(have, amount) == have < amount

\* the SELECT, the test, and the price
SpRead(p) ==
    LET r == req[p]
        top == TopRows(r.user, r.tid, r.pt)
    IN  /\ r.pc = "sp_read"
        /\ IF top = {}
           THEN req' = [req EXCEPT ![p] = Done("InsufficientStock")]
           ELSE \E k \in top :
                  req' = [req EXCEPT ![p] =
                            IF SaleRefused(parts[k], r.amt) THEN Done("InsufficientStock")
                            ELSE [r EXCEPT !.pc = "sp_dec", !.rar = k[4],
                                           !.total = price_per(k[4]) * r.amt]]
        /\ UNCHANGED <<store, clock, nreq, scenario, call, history>>

\* UPDATE parts SET amount = amount - $1 WHERE user, template, part_type AND amount >= $1
SpDec(p) ==
    LET r == req[p]
        hit == {k \in RowsOf(r.user, r.tid, r.pt) : parts[k] >= r.amt}
    IN  /\ r.pc = "sp_dec"
        /\ parts' = [k \in DOMAIN parts |-> IF k \in hit THEN parts[k] - r.amt ELSE parts[k]]
        /\ sale_gap' = [sale_gap EXCEPT ![r.user] =
                           @ - price_per(r.rar) * r.amt * Cardinality(hit)]
        /\ req' = [req EXCEPT ![p] = [r EXCEPT !.pc = "sp_credit"]]
        /\ UNCHANGED <<users, bee_templates, bees, market_listings, listing_seq,
                       spins_log, clock, nreq, scenario, call, drawn, asm_removed, asm_minted, bought>>

\* UPDATE users SET coins = coins + total
SpCredit(p) ==
    LET r == req[p]
        hit == r.user \in DOMAIN users
    IN  /\ r.pc = "sp_credit"
        /\ users' = IF hit THEN [users EXCEPT ![r.user].coins = @ + r.total] ELSE users
        /\ sale_gap' = IF hit THEN [sale_gap EXCEPT ![r.user] = @ + r.total] ELSE sale_gap
        /\ req' = [req EXCEPT ![p] = Done("Sold")]
        /\ UNCHANGED <<bee_templates, parts, bees, market_listings, listing_seq,
                       spins_log, clock, nreq, scenario, call, drawn, asm_removed, asm_minted, bought>>

----------------------------------------------------------------------------
\* /sell_bee <bee_id> <price>

\* mutant: the query forgets AND user_id = $2
BeeExists(u, b) == b \in 1..Len(bees)

\* SELECT id FROM bees WHERE id = $1 AND user_id = $2
OwnsBee(u, b) == b \in 1..Len(bees) /\ bees[b].user_id = u

SbCheck(p) ==
    LET r == req[p]
    IN  /\ r.pc = "sb_check"
        /\ req' = [req EXCEPT ![p] =
                     IF OwnsBee(r.user, r.bee) THEN [r EXCEPT !.pc = "sb_insert"]
                     ELSE Done("NotOwner")]
        /\ UNCHANGED <<store, clock, nreq, scenario, call, history>>

\* INSERT INTO market_listings (seller_id, bee_id, price)
SbInsert(p) ==
    LET r == req[p]
    IN  /\ r.pc = "sb_insert"
        /\ listing_seq' = listing_seq + 1
        /\ market_listings' = Put(market_listings, listing_seq + 1,
               [seller_id |-> r.user, bee_id |-> r.bee, price |-> r.price,
                created_at |-> clock])
        /\ req' = [req EXCEPT ![p] = Done("Listed")]
        /\ UNCHANGED <<users, bee_templates, parts, bees, spins_log, clock, nreq,
                       scenario, call, history>>

----------------------------------------------------------------------------
\* /buy <listing_id>

\* SELECT * FROM market_listings WHERE id = $1; if not listing: answer, return
BuyRead(p) ==
    LET r == req[p]
    IN  /\ r.pc = "buy_read"
        /\ req' = [req EXCEPT ![p] =
                     IF r.lid \in DOMAIN market_listings THEN [r EXCEPT !.pc = "buy_txn"]
                     ELSE Done("ListingGone")]
        /\ UNCHANGED <<store, clock, nreq, scenario, call, history>>

\* add_coins: INSERT INTO users (id, coins) ... ON CONFLICT DO UPDATE SET coins = coins + $2
add_coins(us, u, amount) ==
    IF u \in DOMAIN us THEN [us EXCEPT ![u].coins = @ + amount]
    ELSE Put(us, u, [coins |-> amount, last_spin |-> NoTime])

\* mutant: the balance is not compared with the price
BuyOutcomeNoFunds(buyer, lid) ==
    IF lid \notin DOMAIN market_listings THEN "ListingGone" ELSE "Bought"

\* The rest of the handler is not in src/App.py (the file ends inside the
\* "if not listing" branch).  It is modelled from the specification of
\* Marketplace.buy: one transaction that verifies the listing is still
\* active, debits the buyer if the balance covers the price, credits the
\* seller, transfers the bee and closes the listing.
BuyOutcome(buyer, lid) ==
    IF lid \notin DOMAIN market_listings THEN "ListingGone"
    ELSE IF Coins(buyer) < market_listings[lid].price THEN "InsufficientFunds"
    ELSE "Bought"

\* mutant: the purchase leaves the listing open
BuyTxnKeepsListing(p) ==
    LET r == req[p]
        out == BuyOutcome(r.user, r.lid)
    IN  /\ r.pc = "buy_txn"
        /\ req' = [req EXCEPT ![p] = [Done(out) EXCEPT !.lid = r.lid]]
        /\ IF out = "Bought"
           THEN LET l == market_listings[r.lid]
                IN  /\ users' = add_coins(add_coins(users, r.user, 0 - l.price),
                                          l.seller_id, l.price)
                    /\ bees' = [bees EXCEPT ![l.bee_id].user_id = r.user]
                    /\ market_listings' = market_listings
           ELSE UNCHANGED <<users, bees, market_listings>>
        /\ bought' = IF out = "Bought" THEN Put(bought, r.lid, Count(bought, r.lid) + 1)
                     ELSE bought
        /\ UNCHANGED <<bee_templates, parts, listing_seq, spins_log, clock, nreq,
                       scenario, call, drawn, asm_removed, asm_minted, sale_gap>>

BuyTxn(p) ==
    LET r == req[p]
        out == BuyOutcome(r.user, r.lid)
    IN  /\ r.pc = "buy_txn"
        /\ req' = [req EXCEPT ![p] = [Done(out) EXCEPT !.lid = r.lid]]
        /\ IF out = "Bought"
           THEN LET l == market_listings[r.lid]
                IN  /\ users' = add_coins(add_coins(users, r.user, 0 - l.price),
                                          l.seller_id, l.price)
                    /\ bees' = [bees EXCEPT ![l.bee_id].user_id = r.user]
                    /\ market_listings' =
                           [x \in DOMAIN market_listings \ {r.lid} |-> market_listings[x]]
           ELSE UNCHANGED <<users, bees, market_listings>>
        /\ bought' = IF out = "Bought" THEN Put(bought, r.lid, Count(bought, r.lid) + 1)
                     ELSE bought
        /\ UNCHANGED <<bee_templates, parts, listing_seq, spins_log, clock, nreq,
                       scenario, call, drawn, asm_removed, asm_minted, sale_gap>>

----------------------------------------------------------------------------
\* /market

\* FROM market_listings m JOIN bees b ON m.bee_id = b.id
\*                        JOIN bee_templates t ON b.template_id = t.id
Joined ==
    {l \in DOMAIN market_listings :
        /\ market_listings[l].bee_id \in DOMAIN bees
        /\ bees[market_listings[l].bee_id].template_id \in DOMAIN bee_templates}

\* mutant: ORDER BY m.created_at DESC
OrderedNewestFirst(q) ==
    \A m, n \in DOMAIN q :
        m < n => market_listings[q[m]].created_at >= market_listings[q[n]].created_at

\* ORDER BY m.created_at: rows of equal created_at come in any order
Ordered(q) ==
    \A m, n \in DOMAIN q :
        m < n => market_listings[q[m]].created_at <= market_listings[q[n]].created_at

\* the results the query can give: the joined listings, each once, in order
MarketRows ==
    {q \in [1..Cardinality(Joined) -> Joined] :
        /\ \A m, n \in DOMAIN q : m # n => q[m] # q[n]
        /\ Ordered(q)}

Market(p) ==
    LET r == req[p]
    IN  /\ r.pc = "mk_read"
        /\ \E q \in MarketRows :
              req' = [req EXCEPT ![p] =
                        [Done(IF q = <<>> THEN "MarketEmpty" ELSE "Market") EXCEPT !.rows = q]]
        /\ UNCHANGED <<store, clock, nreq, scenario, call, history>>

----------------------------------------------------------------------------

Next ==
    \/ Tick
    \/ \E p \in Procs :
        \/ Start(p)
        \/ DsEnsure(p) \/ DsRead(p) \/ DsPick(p) \/ DsUpsert(p) \/ DsLog(p) \/ DsStamp(p)
        \/ TaRead(p) \/ TaDec(p) \/ TaTmpl(p) \/ TaInsert(p) \/ Fail(p)
        \/ AsScan(p)
        \/ SpRead(p) \/ SpDec(p) \/ SpCredit(p)
        \/ SbCheck(p) \/ SbInsert(p)
        \/ BuyRead(p) \/ BuyTxn(p)
        \/ Market(p)
        \/ EbtCount(p) \/ EbtTruncate(p) \/ EbtInsert(p)

Spec == Init /\ [][Next]_vars

----------------------------------------------------------------------------
\* draw_amount and the rarity order of /assemble applied on their own: the
\* initial state holds the arguments, one step applies the function.

\* secrets.randbelow(100) + 1
Rolls == 1..100

\* the positions secrets.choice picks from in a list of three
Picks == 1..3

RaritySet == {RARITIES[n] : n \in 1..Len(RARITIES)}

CallArgs ==
    {[NoCall EXCEPT !.fn = "draw_amount", !.roll = r, !.idx = j] : r \in Rolls, j \in Picks}
    \cup {[NoCall EXCEPT !.fn = "sort", !.held = S] : S \in SUBSET RaritySet}

CalcInit ==
    /\ call \in CallArgs
    /\ scenario = "fresh"
    /\ bee_templates = SeedTemplates
    /\ users = <<>> /\ parts = <<>> /\ bees = <<>> /\ spins_log = <<>>
    /\ market_listings = <<>> /\ listing_seq = 0
    /\ clock = 0
    /\ req = [p \in Procs |-> Blank]
    /\ nreq = 0
    /\ asm_removed = <<>> /\ asm_minted = <<>>
    /\ sale_gap = [u \in Users |-> 0]
    /\ bought = <<>> /\ drawn = <<>>

CallDrawAmount ==
    /\ call.fn = "draw_amount" /\ ~call.done
    /\ call' = [call EXCEPT !.amount = draw_amount(call.roll, call.idx), !.done = TRUE]
    /\ UNCHANGED <<store, clock, req, nreq, scenario, history>>

\* the rarities of the rows /assemble reads, in the order the loop tries them
CallSortRarities ==
    /\ call.fn = "sort" /\ ~call.done
    /\ call' = [call EXCEPT !.order = SortRarities(call.held), !.done = TRUE]
    /\ UNCHANGED <<store, clock, req, nreq, scenario, history>>

CalcNext == CallDrawAmount \/ CallSortRarities

CalcSpec == CalcInit /\ [][CalcNext]_vars

----------------------------------------------------------------------------
\* Claims

Idle == \A p \in Procs : req[p].pc = "done"

\* C1: in every reachable state every coin balance is >= 0 and every parts
\* amount is >= 0.
C1_NonNegative ==
    /\ \A u \in DOMAIN users : users[u].coins >= 0
    /\ \A k \in DOMAIN parts : parts[k] >= 0

\* C2: any two successful draws of one user have draw timestamps at least
\* 24 hours apart (each draw-log row stands for one stock increment).
C2_OneDrawPerWindow ==
    \A m, n \in DOMAIN spins_log :
        (m < n /\ spins_log[m].user_id = spins_log[n].user_id)
            => spins_log[n].drawn_at - spins_log[m].drawn_at >= CooldownHours

\* C3: a draw that finds the user's last-draw timestamp less than 24 hours
\* before now fails with CooldownActive and changes neither stock, timestamp,
\* draw log nor bees.
C3_CooldownRefuses ==
    [][\A p \in Procs :
         LET r == req[p]
         IN  (/\ r.pc = "ds_read"
              /\ req'[p] # r
              /\ r.user \in DOMAIN users
              /\ users[r.user].last_spin # <<>>
              /\ clock - users[r.user].last_spin[1] < CooldownHours)
             => (/\ req'[p] = Done("CooldownActive")
                 /\ UNCHANGED <<parts, users, spins_log, bees>>)]_vars

\* user 1, who drew 12 hours ago, has been refused
C3_Witness ==
    \E p \in Procs :
        /\ req[p].res = "CooldownActive"
        /\ 1 \in DOMAIN users /\ users[1].last_spin = <<-12>>

\* C4: try_assemble goes on to consume exactly when all four part types are
\* in stock at its (template, rarity); a successful call has taken exactly one
\* unit of each type and inserts exactly one bee of the caller with that
\* template, rarity, the template's role, level 1 and exp 0; a failed call
\* changes neither stock nor bees.
C4_TryAssemble ==
    [][\A p \in Procs :
         LET r == req[p]
             full == \A pt \in PartTypeSet : Amount(Key(r.user, r.tid, pt, r.rar)) >= 1
             won == req'[p].res \in {"Assembled", "DrawOkBee"}
         IN  (req'[p] # r) =>
               /\ (r.pc = "ta_read") =>
                     /\ UNCHANGED <<parts, bees>>
                     /\ (req'[p].pc = "ta_dec") <=> full
                     /\ ~full => req'[p].res \in {"DrawOk", "NotEnoughParts"}
                                 \/ req'[p].pc = "ta_read"
               /\ (r.pc = "ta_dec" /\ req'[p].pc # "done") =>
                     /\ bees' = bees
                     /\ parts' = [parts EXCEPT ![Key(r.user, r.tid, PART_TYPES[r.i], r.rar)] = @ - 1]
               /\ won =>
                     /\ r.pc = "ta_insert"
                     /\ \A pt \in PartTypeSet : r.pm[pt] >= 1 /\ r.dec[pt] = 1
                     /\ parts' = parts
                     /\ bees' = Append(bees,
                            [user_id |-> r.user, template_id |-> r.tid, rarity |-> r.rar,
                             role |-> bee_templates[r.tid].role, level |-> 1, exp |-> 0])]_vars

\* /assemble has turned user 1's one unit of each part into a second bee
C4_Witness ==
    \E p \in Procs :
        /\ req[p].res = "Assembled"
        /\ Len(bees) = 2
        /\ \A pt \in PartTypeSet : Amount(Key(1, 1, pt, "common")) = 0

\* C5: whenever no request is running, the bees minted for a (user, template,
\* rarity) are as many as the units assembly removed from each of its four
\* part types.
C5_AllOrNothing ==
    Idle =>
        \A u \in Users, t \in TemplateIds, n \in DOMAIN RARITIES, pt \in PartTypeSet :
            Count(asm_removed, Key(u, t, pt, RARITIES[n]))
                = Count(asm_minted, <<u, t, RARITIES[n]>>)

RECURSIVE SumCoins(_, _)
SumCoins(us, S) ==
    IF S = {} THEN 0
    ELSE LET u == CHOOSE x \in S : TRUE
         IN  us[u].coins + SumCoins(us, S \ {u})

TotalCoins(us) == SumCoins(us, DOMAIN us)

\* C6: a purchase on an active listing by a buyer who can pay succeeds, and it
\* is the only one that ever succeeds on that listing: the bee goes to that
\* buyer, the price moves from the buyer to the seller, the listing is closed;
\* a purchase on a listing that is gone fails with ListingGone and changes
\* nothing; every purchase leaves the sum of the balances as it was.
C6_OneBuyerWins ==
    [][\A p \in Procs :
         LET r == req[p]
         IN  (r.pc = "buy_txn" /\ req'[p] # r) =>
               /\ TotalCoins(users') = TotalCoins(users)
               /\ IF r.lid \in DOMAIN market_listings
                  THEN LET l == market_listings[r.lid]
                       IN  /\ (Coins(r.user) >= l.price) => req'[p].res = "Bought"
                           /\ (req'[p].res = "Bought") =>
                                 /\ Count(bought, r.lid) = 0
                                 /\ bees'[l.bee_id].user_id = r.user
                                 /\ r.lid \notin DOMAIN market_listings'
                                 /\ IF r.user = l.seller_id
                                    THEN CoinsIn(users', r.user) = Coins(r.user)
                                    ELSE /\ CoinsIn(users', r.user) = Coins(r.user) - l.price
                                         /\ CoinsIn(users', l.seller_id)
                                                = Coins(l.seller_id) + l.price
                  ELSE /\ req'[p].res = "ListingGone"
                       /\ UNCHANGED store]_vars

\* two purchases of one listing have ended: one bought, the other found it gone
C6_Witness ==
    \E p, q \in Procs :
        /\ req[p].res = "Bought"
        /\ req[q].res = "ListingGone"
        /\ req[q].lid = req[p].lid
        /\ Count(bought, req[p].lid) = 1

\* C7: a purchase by a buyer whose balance is below the price fails with
\* InsufficientFunds; the listing, the bee's owner and every balance stay.
C7_InsufficientFunds ==
    [][\A p \in Procs :
         LET r == req[p]
         IN  (/\ r.pc = "buy_txn"
              /\ req'[p] # r
              /\ r.lid \in DOMAIN market_listings
              /\ Coins(r.user) < market_listings[r.lid].price)
             => (/\ req'[p].res = "InsufficientFunds"
                 /\ UNCHANGED <<users, bees, market_listings>>)]_vars

\* a buyer has been refused and listing 1 is still there, bee 1 still the seller's
C7_Witness ==
    \E p \in Procs :
        /\ req[p].res = "InsufficientFunds"
        /\ req[p].lid = 1
        /\ market_listings = SeedListings
        /\ bees[1].user_id = 1

\* C8: for a user with no part sale running, the coins part sales credited
\* equal the unit price times the units those sales removed from stock.
C8_SaleCreditMatches ==
    \A u \in Users :
        (\A p \in Procs : ~(req[p].cmd = "sell_part" /\ req[p].user = u))
            => sale_gap[u] = 0

\* the amount a user holds of a (template, part type): the greatest row, 0 without one
Held(u, t, pt) ==
    IF RowsOf(u, t, pt) = {} THEN 0
    ELSE CHOOSE a \in {parts[k] : k \in RowsOf(u, t, pt)} :
            \A k \in RowsOf(u, t, pt) : parts[k] <= a

\* C9: a part sale that asks for more than the user holds of that (template,
\* part type) fails with InsufficientStock; no stock amount and no balance changes.
C9_InsufficientStock ==
    [][\A p \in Procs :
         LET r == req[p]
         IN  (/\ r.pc = "sp_read"
              /\ req'[p] # r
              /\ r.amt > Held(r.user, r.tid, r.pt))
             => (/\ req'[p] = Done("InsufficientStock")
                 /\ UNCHANGED <<parts, users>>)]_vars

\* user 1 holds one wing and the only request so far, a sale, has been refused
C9_Witness ==
    \E p \in Procs :
        /\ req[p].res = "InsufficientStock"
        /\ nreq = 1
        /\ Amount(Key(1, 1, "wing", "common")) = 1

\* C10: /sell_bee on a bee that does not exist or whose owner is not the caller
\* fails with NotOwner, and no listing is created.
C10_NotOwner ==
    [][\A p \in Procs :
         LET r == req[p]
         IN  (/\ r.pc = "sb_check"
              /\ req'[p] # r
              /\ (r.bee \notin 1..Len(bees) \/ bees[r.bee].user_id # r.user))
             => (/\ req'[p] = Done("NotOwner")
                 /\ UNCHANGED <<market_listings, listing_seq>>)]_vars

\* a /sell_bee has been refused and the listings are those of the start
C10_Witness ==
    \E p \in Procs :
        /\ req[p].res = "NotOwner"
        /\ market_listings = SeedListings

\* C11: in every reachable state no two listings are for the same bee.
C11_OneListingPerBee ==
    \A a, b \in DOMAIN market_listings :
        a # b => market_listings[a].bee_id # market_listings[b].bee_id

\* C12: in every reachable state every listing has a price > 0.
C12_PositivePrice ==
    \A l \in DOMAIN market_listings : market_listings[l].price > 0

\* position of a rarity in the tier order: 1 is the most common tier, the
\* last one (a single template in the catalog) the rarest
TierOf(rar) == CHOOSE n \in 1..Len(RARITIES) : RARITIES[n] = rar

Band(r) ==
    IF r <= 45 THEN {1, 2, 3}
    ELSE IF r <= 80 THEN {4, 5, 6}
    ELSE IF r <= 95 THEN {7, 8, 9}
    ELSE {10}

\* C16: the amount drawn for a roll lies in the roll's band; every amount of a
\* band is drawn for some choice at every roll of the band, so the amounts are
\* 1..10; 45, 35, 15 and 5 of the 100 rolls give the four bands.
C16_DrawAmountBands ==
    /\ (call.fn = "draw_amount" /\ call.done) =>
            /\ call.amount \in Band(call.roll)
            /\ call.amount \in 1..10
    /\ \A r \in Rolls : {draw_amount(r, j) : j \in Picks} = Band(r)
    /\ Cardinality({r \in Rolls : Band(r) = {1, 2, 3}}) = 45
    /\ Cardinality({r \in Rolls : Band(r) = {4, 5, 6}}) = 35
    /\ Cardinality({r \in Rolls : Band(r) = {7, 8, 9}}) = 15
    /\ Cardinality({r \in Rolls : Band(r) = {10}}) = 5

\* the last roll of the first band has given its greatest amount
C16_Witness ==
    call.fn = "draw_amount" /\ call.done /\ call.roll = 45 /\ call.amount = 3

\* in "draws": the fourth draw has given heads of template 1
HeadDrawn ==
    /\ scenario = "draws"
    /\ Len(spins_log) = 4
    /\ spins_log[4].template_id = 1 /\ spins_log[4].part_type = "head"

\* units of a part type of template 1 the first n draw-log rows gave user 1
RECURSIVE LogTotal(_, _)
LogTotal(pt, n) ==
    IF n = 0 THEN 0
    ELSE LogTotal(pt, n - 1)
         + (IF /\ spins_log[n].user_id = 1 /\ spins_log[n].template_id = 1
               /\ spins_log[n].part_type = pt
            THEN spins_log[n].amount ELSE 0)

Unlogged(v) == Cardinality({p \in Procs : req[p].pc = "ds_log" /\ Given(req[p]) = v})

\* rows of the draw log that say v was given
Logged(v) == Cardinality({n \in DOMAIN spins_log : GivenBy(spins_log[n]) = v})

FrameOfAll(r) ==
    /\ Len(bees') >= Len(bees)
    /\ \A b \in DOMAIN bees :
          /\ r.cmd # "buy" => bees'[b].user_id = bees[b].user_id
          /\ [bees'[b] EXCEPT !.user_id = 0] = [bees[b] EXCEPT !.user_id = 0]
    /\ \A k \in (DOMAIN parts) \cup (DOMAIN parts') :
          k[1] # r.user => (k \in DOMAIN parts /\ k \in DOMAIN parts' /\ parts'[k] = parts[k])
    /\ r.cmd \in {"daily_spin", "assemble", "sell_bee"} =>
          \A u \in (DOMAIN users) \cup (DOMAIN users') : CoinsIn(users', u) = Coins(u)

\* C17 as stated: the frame of every handler, and no step of /daily_spin,
\* /sell_part or /sell_bee creates a bee.
C17_WriterExclusivity ==
    [][\A p \in Procs :
         LET r == req[p]
         IN  (req'[p] # r) =>
               /\ FrameOfAll(r)
               /\ r.cmd \in {"daily_spin", "sell_part", "sell_bee"} => Len(bees') = Len(bees)]_vars

\* C17, amended: the frame of every handler; no step of /sell_part or
\* /sell_bee creates a bee, and /daily_spin creates one only in the INSERT of
\* the try_assemble it calls: one bee of the drawing user, of the template and
\* rarity drawn.
C17_WritersWithFollowUp ==
    [][\A p \in Procs :
         LET r == req[p]
         IN  (req'[p] # r) =>
               /\ FrameOfAll(r)
               /\ r.cmd \in {"sell_part", "sell_bee"} => Len(bees') = Len(bees)
               /\ (r.cmd = "daily_spin" /\ Len(bees') # Len(bees)) =>
                     /\ r.pc = "ta_insert"
                     /\ Len(bees') = Len(bees) + 1
                     /\ bees'[Len(bees')].user_id = r.user
                     /\ bees'[Len(bees')].template_id = r.tid
                     /\ bees'[Len(bees')].rarity = r.rar]_vars

\* a draw has ended with a new bee, the first one of the store
C17_Witness ==
    \E p \in Procs :
        /\ req[p].res = "DrawOkBee"
        /\ Len(bees) = 1
        /\ bees[1].user_id = 1

\* C18: the rows /market answers with are the listings of the store, each
\* exactly once, and no listing comes after one that was created later.
C18_MarketOldestFirst ==
    [][\A p \in Procs :
         LET r == req[p]
             q == req'[p].rows
         IN  (r.pc = "mk_read" /\ req'[p] # r) =>
               /\ {q[n] : n \in DOMAIN q} = DOMAIN market_listings
               /\ Len(q) = Cardinality(DOMAIN market_listings)
               /\ \A m, n \in DOMAIN q :
                     m < n => ~(market_listings[q[n]].created_at
                                  < market_listings[q[m]].created_at)]_vars

\* /market has answered with the listing of hour -6 and then one created later
C18_Witness ==
    \E p \in Procs :
        /\ req[p].res = "Market"
        /\ Len(req[p].rows) = 2
        /\ req[p].rows[1] = 1
        /\ 2 \in DOMAIN market_listings
        /\ market_listings[2].created_at > SeedListings[1].created_at

\* C19: when DB.init has run again on the seeded catalog, every template has
\* the id, name, rarity, role and base value it had.
C19_CatalogImmutable ==
    (\E p \in Procs : req[p].res = "Ready") => bee_templates = SeedTemplates

\* C20: every parts row has the rarity of its template, so a user has at most
\* one row per (template, part type), and every bee has the rarity of its
\* template.
C20_RarityOfTemplate ==
    /\ \A k \in DOMAIN parts :
          k[2] \in DOMAIN bee_templates => k[4] = bee_templates[k[2]].rarity
    /\ \A k \in DOMAIN parts : k[2] \in TemplateIds /\ k[4] = RarityAt(k[2], 1)
    /\ \A k, x \in DOMAIN parts :
          (k[1] = x[1] /\ k[2] = x[2] /\ k[3] = x[3]) => k = x
    /\ \A b \in DOMAIN bees :
          /\ bees[b].rarity = RarityAt(bees[b].template_id, 1)
          /\ bees[b].template_id \in DOMAIN bee_templates
                => bees[b].rarity = bee_templates[bees[b].template_id].rarity

\* draws have given user 1 a part of template 36 and a part of template 1,
\* each at its template's rarity
C20_Witness ==
    /\ scenario = "fresh"
    /\ \E pt \in PartTypeSet : Key(1, 36, pt, "superrare") \in DOMAIN parts
    /\ \E pt \in PartTypeSet : Key(1, 1, pt, "common") \in DOMAIN parts

\* C21: the UPDATE of a part sale of amount n changes exactly the row the
\* sale read its rarity and price from, by exactly n, and no other row.
C21_SaleDecrementsOneRow ==
    [][\A p \in Procs :
         LET r == req[p]
             k == Key(r.user, r.tid, r.pt, r.rar)
         IN  (r.pc = "sp_dec" /\ req'[p] # r) =>
               /\ k \in DOMAIN parts
               /\ parts' = [parts EXCEPT ![k] = @ - r.amt]]_vars

====
